---- MODULE Spec2Model ----
(***************************************************************************)
(* A model of djg_munich.py: one sequential run of start_extraction.  The  *)
(* browser, the page (DOM), the HTTP server and the filesystem are the     *)
(* environment: every lookup, wait, GET and file operation draws its       *)
(* outcome from a small set.  An uncaught exception ends the run in        *)
(* pc = "raised"; the frames of load_website are unwound, so its locals    *)
(* are gone, while the filesystem and the browser session stay as they are.*)
(***************************************************************************)
EXTENDS Integers, Sequences, FiniteSets, TLC

\* ------------------------------------------------------------------ bounds
\* the size of the page: the letters, buttons and images the lookups of one
\* run answer, together
MaxNodes == 4
\* ul elements one lookup answers
MaxUl == 2

\* WebDriverWait(driver, 10)
WaitTimeout == 10

\* -------------------------------------------------------- the environment
Labels == {"A", "B", "main"}
\* button labels, as sequences of characters ("/" is not valid in a file name)
Headers == {<<"x">>, <<"x", "/">>}
Texts == {"t"}
MainTexts == {"m"}
Urls == {"u1", "u2"}
Statuses == {200, 404}
\* what a driver call can raise besides NoSuchElementException
Faults == {"StaleElementReferenceException", "TimeoutException"}
\* the time at which a waited-for condition becomes true
BecomesTrueAt == {0, WaitTimeout + 1}

SeqsUpTo(S, n) == UNION {[1..m -> S] : m \in 0..n}

\* ------------------------------------------------------- python values
None == [kind |-> "None"]
Str(s) == [kind |-> "str", s |-> s]
List(l) == [kind |-> "list", l |-> l]
Dict(d) == [kind |-> "dict", d |-> d]
\* a WebElement: its visible text (or src), and the letter index i of the call
\* click_alpha_navigation_button(i, ...) whose query returned it (-1: a query
\* made before the loop over the letters)
Elem(text, rev) == [kind |-> "elem", text |-> text, rev |-> rev]

\* a dict keeps its keys in insertion order: a sequence of <key, value>
HasKey(d, k) == \E n \in 1..Len(d) : d[n].key = k
DictGet(d, k) == d[CHOOSE n \in 1..Len(d) : d[n].key = k].val
DictSet(d, k, v) ==
    IF HasKey(d, k)
    THEN [n \in 1..Len(d) |-> IF d[n].key = k THEN [key |-> k, val |-> v] ELSE d[n]]
    ELSE Append(d, [key |-> k, val |-> v])
Keys(d) == [n \in 1..Len(d) |-> d[n].key]

\* f"page_{j}"
PageKeyOff(j) == "page_" \o ToString(j + 1)
PageKey(j) == "page_" \o ToString(j)

\* ---------------------------------------------------------------- state
VARIABLES
    pc, exc,
    \* the statement that ran last
    step,
    \* the world outside the process
    imgDir, files, jsonFile, browser, ctx, stdout,
    \* locals of load_website and of the functions it calls
    extracted_data, content_iframe, alpha_nav_buttons, i, alpha,
    accordion_item, button_elements, buttons, j,
    data_container, image_boxes, images, k,
    \* the value load_website returned
    returned,
    \* history: what the environment presented and what was done to it
    lookups, waited, revealed, clicks, uses, downloads, writes, nodes,
    quitCalls, frameLookup, mainLookup

world == <<imgDir, files, jsonFile, browser, ctx, stdout>>
locals == <<extracted_data, content_iframe, alpha_nav_buttons, i, alpha,
            accordion_item, button_elements, buttons, j,
            data_container, image_boxes, images, k>>
history == <<lookups, waited, revealed, clicks, uses, downloads, writes, nodes,
             quitCalls, frameLookup, mainLookup>>
vars == <<pc, exc, step, world, locals, returned, history>>

LocalsInit ==
    /\ extracted_data = <<>>
    /\ content_iframe = None
    /\ alpha_nav_buttons = <<>>
    /\ i = 0
    /\ alpha = ""
    /\ accordion_item = None
    /\ button_elements = <<>>
    /\ buttons = <<>>
    /\ j = 0
    /\ data_container = <<>>
    /\ image_boxes = <<>>
    /\ images = <<>>
    /\ k = 0

Init ==
    /\ pc = "make_img_dir"
    /\ exc = "none"
    /\ step = "none"
    /\ imgDir \in BOOLEAN
    /\ files = <<>>
    /\ jsonFile = [state |-> "absent"]
    /\ browser = "none"
    /\ ctx = "top"
    /\ stdout = 0
    /\ LocalsInit
    /\ returned = None
    /\ lookups = <<>>
    /\ waited = 0
    /\ revealed = <<>>
    /\ clicks = <<>>
    /\ uses = {}
    /\ downloads = <<>>
    /\ writes = <<>>
    /\ nodes = 0
    /\ quitCalls = 0
    /\ frameLookup = "pending"
    /\ mainLookup = "pending"

\* --------------------------------------------------- library behaviour
\* find_element / find_elements: find_elements answers a list, empty when
\* nothing matches; find_element answers the first match and raises
\* NoSuchElementException when nothing matches; either may fail otherwise.
find(all_elements, matches, fault) ==
    IF fault # "none" THEN [exc |-> fault, data |-> None]
    ELSE IF all_elements THEN [exc |-> "none", data |-> List(matches)]
    ELSE IF matches = <<>> THEN [exc |-> "NoSuchElementException", data |-> None]
    ELSE [exc |-> "none", data |-> matches[1]]

\* a variant that swallows every exception of the lookup
execute_catching_all(all_elements, matches, fault) ==
    LET r == find(all_elements, matches, fault)
    IN  IF r.exc # "none"
        THEN [exc |-> "none", data |-> None, printed |-> 1]
        ELSE [exc |-> "none", data |-> r.data, printed |-> 0]

\* execute_with_exception_handling: only NoSuchElementException is caught
execute_with_exception_handling(all_elements, matches, fault) ==
    LET r == find(all_elements, matches, fault)
    IN  IF r.exc = "NoSuchElementException"
        THEN [exc |-> "none", data |-> None, printed |-> 1]
        ELSE [exc |-> r.exc, data |-> r.data, printed |-> 0]

\* what the driver can answer to one lookup: a failure, or the matches
Outcome(matches, fault) == fault # "none" => matches = <<>>
\* a lookup the statement does not reach is not drawn
NotReached(matches, fault) == matches = <<>> /\ fault = "none"

\* the record of one call, kept in lookups
Call(all_elements, matches, fault, r) ==
    [all |-> all_elements, matches |-> List(matches), fault |-> fault,
     exc |-> r.exc, data |-> r.data, printed |-> r.printed]

\* WebDriverWait.until(condition on element): the condition is polled; an
\* exception of the condition that is not NoSuchElementException leaves the
\* wait at once (None has no is_displayed); a condition still false when the
\* timeout has passed raises TimeoutException.
until(element, at) ==
    IF element.kind = "None" THEN [exc |-> "AttributeError", elapsed |-> 0]
    ELSE IF at <= WaitTimeout THEN [exc |-> "none", elapsed |-> at]
    ELSE [exc |-> "TimeoutException", elapsed |-> WaitTimeout]

\* the truth value of a lookup's result: None is false, a WebElement true
Truthy(v) == v.kind # "None"

\* list[idx]
InRange(l, idx) == idx < Len(l)

\* ul_elements_in_iframe[0] and execute_with_exception_handling(...)[1]
NavListIndex == 0
ContentListIndexShifted == 1 - 1
ContentListIndex == 1

\* pathvalidate.sanitize_filename removes the characters no file name may
\* hold; a name that ends in "_<digits>" is not changed otherwise
InvalidChars == {"/", "\\", ":", "*", "?", "<", ">", "|"}
sanitize_filename(s) == SelectSeq(s, LAMBDA c : c \notin InvalidChars)
\* f"./images/{sanitized_filename}.png" for f"{button_text}_{i}"
ImageFile(button_text, n) ==
    [dir |-> "./images", stem |-> sanitize_filename(button_text \o <<"_", ToString(n)>>),
     ext |-> ".png"]
\* the body the server sends for a URL
Body(url, status) == IF status = 200 THEN <<"bytes of", url>> ELSE <<"error page">>

\* if response.status_code == 200
StatusAny(status) == TRUE
StatusOK(status) == status = 200

\* if i != 0: element.click()      (click_alpha_navigation_button)
ShouldClickAlways(n) == TRUE
ShouldClick(n) == n # 0

\* if main_text: extracted_data["main"] = main_text.text
MainAlways(d, main_text) ==
    DictSet(d, "main", Str(IF Truthy(main_text) THEN main_text.text ELSE ""))
WithMain(d, main_text) ==
    IF Truthy(main_text) THEN DictSet(d, "main", Str(main_text.text)) ELSE d

\* if text_box: data_container["text"] = text_box.text
TextAlways(d, text_box) ==
    DictSet(d, "text", IF Truthy(text_box) THEN Str(text_box.text) ELSE None)
WithText(d, text_box) ==
    IF Truthy(text_box) THEN DictSet(d, "text", Str(text_box.text)) ELSE d

\* where start_extraction goes when a call raises: nothing catches it
OnRaiseDump == "dump"
OnRaiseQuit == "quit"
OnRaise == "raised"

\* ------------------------------------------------------------ the run
Unwind ==
    /\ extracted_data' = <<>>
    /\ content_iframe' = None
    /\ alpha_nav_buttons' = <<>>
    /\ i' = 0
    /\ alpha' = ""
    /\ accordion_item' = None
    /\ button_elements' = <<>>
    /\ buttons' = <<>>
    /\ j' = 0
    /\ data_container' = <<>>
    /\ image_boxes' = <<>>
    /\ images' = <<>>
    /\ k' = 0

\* an uncaught exception e
Raise(e) ==
    /\ pc' = OnRaise
    /\ exc' = e
    /\ step' = pc
    /\ Unwind
    /\ UNCHANGED returned

Goto(l) == pc' = l /\ exc' = exc /\ step' = pc

\* make_img_dir
MakeImgDir ==
    /\ pc = "make_img_dir"
    /\ \E ok \in BOOLEAN :
        IF imgDir \/ ok
        THEN /\ imgDir' = TRUE
             /\ Goto("start_webdriver")
             /\ UNCHANGED <<locals, returned>>
        ELSE /\ imgDir' = imgDir
             /\ Raise("OSError")
    /\ UNCHANGED <<files, jsonFile, browser, ctx, stdout, history>>

\* start_webdriver
StartWebdriver ==
    /\ pc = "start_webdriver"
    /\ \E ok \in BOOLEAN :
        IF ok
        THEN /\ browser' = "open"
             /\ Goto("load")
             /\ UNCHANGED <<locals, returned>>
        ELSE /\ browser' = browser
             /\ Raise("WebDriverException")
    /\ UNCHANGED <<imgDir, files, jsonFile, ctx, stdout, history>>

\* load_website: implicitly_wait, get, execute_script, sleep
LoadPage ==
    /\ pc = "load"
    /\ \E ok \in BOOLEAN :
        IF ok
        THEN /\ Goto("find_main")
             /\ UNCHANGED <<locals, returned>>
        ELSE Raise("WebDriverException")
    /\ UNCHANGED <<world, history>>

\* load_website: extracted_data = {}; the main block
FindMain ==
    /\ pc = "find_main"
    /\ \E matches \in SeqsUpTo({Elem(t, -1) : t \in MainTexts}, 1),
          fault \in {"none"} \cup Faults :
        LET r == execute_with_exception_handling(FALSE, matches, fault)
        IN  /\ Outcome(matches, fault)
            /\ lookups' = <<Call(FALSE, matches, fault, r)>>
            /\ stdout' = stdout + r.printed
            /\ IF r.exc # "none"
               THEN Raise(r.exc) /\ UNCHANGED mainLookup
               ELSE /\ extracted_data' = WithMain(<<>>, r.data)
                    /\ mainLookup' = IF matches = <<>> THEN "absent" ELSE matches[1].text
                    /\ Goto("find_iframe")
                    /\ UNCHANGED <<content_iframe, alpha_nav_buttons, i, alpha,
                                   accordion_item, button_elements, buttons, j,
                                   data_container, image_boxes, images, k, returned>>
    /\ UNCHANGED <<imgDir, files, jsonFile, browser, ctx>>
    /\ UNCHANGED <<waited, revealed, clicks, uses, downloads, writes, nodes,
                   quitCalls, frameLookup>>

\* load_website: wait = WebDriverWait(driver, 10); the iframe lookup
FindIframe ==
    /\ pc = "find_iframe"
    /\ \E matches \in SeqsUpTo({Elem("iframe", -1)}, 1),
          fault \in {"none"} \cup Faults :
        LET r == execute_with_exception_handling(FALSE, matches, fault)
        IN  /\ Outcome(matches, fault)
            /\ lookups' = <<Call(FALSE, matches, fault, r)>>
            /\ stdout' = stdout + r.printed
            /\ IF r.exc # "none"
               THEN /\ Raise(r.exc)
                    /\ UNCHANGED <<frameLookup, mainLookup>>
               ELSE /\ content_iframe' = r.data
                    /\ frameLookup' = IF Truthy(r.data) THEN "found" ELSE "absent"
                    /\ UNCHANGED mainLookup
                    /\ Goto("wait_iframe")
                    /\ UNCHANGED <<extracted_data, alpha_nav_buttons, i, alpha,
                                   accordion_item, button_elements, buttons, j,
                                   data_container, image_boxes, images, k, returned>>
    /\ UNCHANGED <<imgDir, files, jsonFile, browser, ctx>>
    /\ UNCHANGED <<waited, revealed, clicks, uses, downloads, writes, nodes,
                   quitCalls>>

\* load_website: content_iframe = wait.until(EC.visibility_of(content_iframe))
WaitIframe ==
    /\ pc = "wait_iframe"
    /\ \E at \in BecomesTrueAt :
        LET w == until(content_iframe, at)
        IN  /\ waited' = w.elapsed
            /\ IF w.exc # "none"
               THEN Raise(w.exc)
               ELSE /\ Goto("switch")
                    /\ UNCHANGED <<locals, returned>>
    /\ UNCHANGED world
    /\ UNCHANGED <<lookups, revealed, clicks, uses, downloads, writes, nodes,
                   quitCalls, frameLookup, mainLookup>>

\* load_website: driver.switch_to.frame(content_iframe)
SwitchFrame ==
    /\ pc = "switch"
    /\ ctx' = "frame"
    /\ Goto("query_nav")
    /\ UNCHANGED <<imgDir, files, jsonFile, browser, stdout>>
    /\ UNCHANGED <<locals, returned, history>>

\* load_website: the ul elements of the frame, and the div elements of the first
QueryNav ==
    /\ pc = "query_nav"
    /\ \E n \in 0..MaxUl, fault1 \in {"none"} \cup Faults,
          labels \in SeqsUpTo(Labels, MaxNodes - nodes), fault2 \in {"none"} \cup Faults :
        LET uls == [m \in 1..n |-> Elem("ul", -1)]
            r1 == execute_with_exception_handling(TRUE, uls, fault1)
            c1 == Call(TRUE, uls, fault1, r1)
            divs == [m \in 1..Len(labels) |-> Elem(labels[m], -1)]
            r2 == execute_with_exception_handling(TRUE, divs, fault2)
            c2 == Call(TRUE, divs, fault2, r2)
        IN  /\ Outcome(uls, fault1)
            /\ Outcome(divs, fault2)
            /\ IF r1.exc # "none"
               THEN /\ NotReached(divs, fault2)
                    /\ lookups' = <<c1>> /\ stdout' = stdout /\ Raise(r1.exc)
                    /\ UNCHANGED nodes
               ELSE IF ~InRange(r1.data.l, NavListIndex)
               THEN /\ NotReached(divs, fault2)
                    /\ lookups' = <<c1>> /\ stdout' = stdout + r1.printed /\ Raise("IndexError")
                    /\ UNCHANGED nodes
               ELSE IF r2.exc # "none"
               THEN /\ lookups' = <<c1, c2>> /\ stdout' = stdout + r1.printed /\ Raise(r2.exc)
                    /\ UNCHANGED nodes
               ELSE /\ lookups' = <<c1, c2>>
                    /\ stdout' = stdout + r1.printed + r2.printed
                    /\ alpha_nav_buttons' = r2.data.l
                    /\ i' = 0
                    /\ nodes' = nodes + Len(labels)
                    /\ Goto("letter")
                    /\ UNCHANGED <<extracted_data, content_iframe, alpha,
                                   accordion_item, button_elements, buttons, j,
                                   data_container, image_boxes, images, k, returned>>
    /\ UNCHANGED <<imgDir, files, jsonFile, browser, ctx>>
    /\ UNCHANGED <<waited, revealed, clicks, uses, downloads, writes,
                   quitCalls, frameLookup, mainLookup>>

\* load_website, the head of the outer loop: alpha = a_nav.text;
\* extracted_data[alpha] = {}; wait.until(EC.element_to_be_clickable(a_nav))
LetterStart ==
    /\ pc = "letter"
    /\ i < Len(alpha_nav_buttons)
    /\ \E at \in BecomesTrueAt :
        LET a_nav == alpha_nav_buttons[i + 1]
            w == until(a_nav, at)
        IN  /\ waited' = w.elapsed
            /\ IF w.exc # "none"
               THEN Raise(w.exc)
               ELSE /\ alpha' = a_nav.text
                    /\ extracted_data' = DictSet(extracted_data, a_nav.text, Dict(<<>>))
                    /\ Goto("reveal")
                    /\ UNCHANGED <<content_iframe, alpha_nav_buttons, i,
                                   accordion_item, button_elements, buttons, j,
                                   data_container, image_boxes, images, k, returned>>
    /\ UNCHANGED world
    /\ UNCHANGED <<lookups, revealed, clicks, uses, downloads, writes, nodes,
                   quitCalls, frameLookup, mainLookup>>

\* load_website: the outer loop is exhausted; return extracted_data
Return ==
    /\ pc = "letter"
    /\ i = Len(alpha_nav_buttons)
    /\ returned' = Dict(extracted_data)
    /\ Unwind
    /\ Goto("quit")
    /\ UNCHANGED <<world, history>>

\* click_alpha_navigation_button(i, driver, element), and
\* buttons = list(map(lambda x: x.text, button_elements))
RevealLetter ==
    /\ pc = "reveal"
    /\ clicks' = Append(clicks, IF ShouldClick(i) THEN 1 ELSE 0)
    /\ \E n \in 0..MaxUl, fault1 \in {"none"} \cup Faults,
          hs \in SeqsUpTo(Headers, MaxNodes - nodes),
          fault2 \in {"none"} \cup Faults :
        LET uls == [m \in 1..n |-> Elem("ul", i)]
            r1 == execute_with_exception_handling(TRUE, uls, fault1)
            c1 == Call(TRUE, uls, fault1, r1)
            bs == [m \in 1..Len(hs) |-> Elem(hs[m], i)]
            r2 == execute_with_exception_handling(TRUE, bs, fault2)
            c2 == Call(TRUE, bs, fault2, r2)
        IN  /\ Outcome(uls, fault1)
            /\ Outcome(bs, fault2)
            /\ IF r1.exc # "none"
               THEN /\ NotReached(bs, fault2)
                    /\ lookups' = <<c1>>
                    /\ stdout' = stdout
                    /\ Raise(r1.exc)
                    /\ UNCHANGED <<revealed, uses, nodes>>
               ELSE IF ~InRange(r1.data.l, ContentListIndex)
               THEN /\ NotReached(bs, fault2)
                    /\ lookups' = <<c1>>
                    /\ stdout' = stdout + r1.printed
                    /\ Raise("IndexError")
                    /\ UNCHANGED <<revealed, uses, nodes>>
               ELSE IF r2.exc # "none"
               THEN /\ lookups' = <<c1, c2>>
                    /\ stdout' = stdout + r1.printed
                    /\ Raise(r2.exc)
                    /\ uses' = uses \cup {[letter |-> i, rev |-> r1.data.l[ContentListIndex + 1].rev]}
                    /\ UNCHANGED <<revealed, nodes>>
               ELSE /\ lookups' = <<c1, c2>>
                    /\ stdout' = stdout + r1.printed + r2.printed
                    /\ accordion_item' = r1.data.l[ContentListIndex + 1]
                    /\ button_elements' = r2.data.l
                    /\ buttons' = [m \in 1..Len(r2.data.l) |-> r2.data.l[m].text]
                    /\ j' = 0
                    /\ uses' = uses \cup {[letter |-> i, rev |-> r1.data.l[ContentListIndex + 1].rev]}
                                    \cup {[letter |-> i, rev |-> r2.data.l[m].rev] :
                                             m \in 1..Len(r2.data.l)}
                    /\ revealed' = Append(revealed,
                           [label |-> alpha, buttons |-> hs, entries |-> <<>>])
                    /\ nodes' = nodes + Len(hs)
                    /\ Goto("button")
                    /\ UNCHANGED <<extracted_data, content_iframe, alpha_nav_buttons, i,
                                   alpha, data_container, image_boxes, images, k, returned>>
    /\ UNCHANGED <<imgDir, files, jsonFile, browser, ctx>>
    /\ UNCHANGED <<waited, downloads, writes, quitCalls, frameLookup, mainLookup>>

\* load_website, the head of the inner loop:
\* element = wait.until(EC.element_to_be_clickable(button))
ButtonWait ==
    /\ pc = "button"
    /\ j < Len(button_elements)
    /\ uses' = uses \cup {[letter |-> i, rev |-> button_elements[j + 1].rev]}
    /\ \E at \in BecomesTrueAt :
        LET w == until(button_elements[j + 1], at)
        IN  /\ waited' = w.elapsed
            /\ IF w.exc # "none"
               THEN Raise(w.exc)
               ELSE /\ Goto("entry")
                    /\ UNCHANGED <<locals, returned>>
    /\ UNCHANGED world
    /\ UNCHANGED <<lookups, revealed, clicks, downloads, writes, nodes,
                   quitCalls, frameLookup, mainLookup>>

\* load_website: the inner loop is exhausted; the next letter
NextLetter ==
    /\ pc = "button"
    /\ j = Len(button_elements)
    /\ i' = i + 1
    /\ Goto("letter")
    /\ UNCHANGED <<extracted_data, content_iframe, alpha_nav_buttons, alpha,
                   accordion_item, button_elements, buttons, j,
                   data_container, image_boxes, images, k, returned>>
    /\ UNCHANGED <<world, history>>

\* process_webpage_elements(j, element, accordion_item, buttons), up to the
\* image loop: the click (if j != 0) and the sleep act on the page only, whose
\* answers are drawn anew; then the header, the text block, the image lookup.
\* Both XPath lookups start with //, so what they find is drawn from the
\* document, not from the accordion item.
EntryStart ==
    /\ pc = "entry"
    /\ \E tb \in SeqsUpTo({Elem(t, i) : t \in Texts}, 1),
          fault1 \in {"none"} \cup Faults,
          urls \in SeqsUpTo(Urls, MaxNodes - nodes),
          fault2 \in {"none"} \cup Faults :
        LET header == DictSet(<<>>, "header", Str(buttons[j + 1]))
            r1 == execute_with_exception_handling(FALSE, tb, fault1)
            c1 == Call(FALSE, tb, fault1, r1)
            imgs == [m \in 1..Len(urls) |-> Elem(urls[m], i)]
            r2 == execute_with_exception_handling(TRUE, imgs, fault2)
            c2 == Call(TRUE, imgs, fault2, r2)
        IN  /\ Outcome(tb, fault1)
            /\ Outcome(imgs, fault2)
            /\ IF r1.exc # "none"
               THEN /\ NotReached(imgs, fault2)
                    /\ lookups' = <<c1>>
                    /\ stdout' = stdout
                    /\ Raise(r1.exc)
                    /\ UNCHANGED nodes
               ELSE IF r2.exc # "none"
               THEN /\ lookups' = <<c1, c2>>
                    /\ stdout' = stdout + r1.printed
                    /\ Raise(r2.exc)
                    /\ UNCHANGED nodes
               ELSE /\ lookups' = <<c1, c2>>
                    /\ stdout' = stdout + r1.printed + r2.printed
                    /\ data_container' = WithText(header, r1.data)
                    /\ image_boxes' = r2.data.l
                    /\ images' = <<>>
                    /\ k' = 0
                    /\ nodes' = nodes + Len(urls)
                    /\ Goto("image")
                    /\ UNCHANGED <<extracted_data, content_iframe, alpha_nav_buttons, i,
                                   alpha, accordion_item, button_elements, buttons, j,
                                   returned>>
    /\ uses' = uses \cup {[letter |-> i, rev |-> accordion_item.rev]}
                    \cup {[letter |-> i, rev |-> button_elements[j + 1].rev]}
    /\ downloads' = <<>>
    /\ writes' = <<>>
    /\ UNCHANGED <<imgDir, files, jsonFile, browser, ctx>>
    /\ UNCHANGED <<waited, revealed, clicks, quitCalls, frameLookup, mainLookup>>

\* process_webpage_elements, one turn of the image loop: the src, the GET,
\* and on 200 the file
ImageStep ==
    /\ pc = "image"
    /\ k < Len(image_boxes)
    /\ \E answered \in BOOLEAN, status \in Statuses, opened \in BOOLEAN :
        LET image_url == image_boxes[k + 1].text
            button_text == DictGet(data_container, "header").s
            content == Body(image_url, status)
            filename == ImageFile(button_text, k)
            got == Append(downloads,
                     [index |-> k, url |-> image_url, status |-> status, content |-> content])
        IN  IF ~answered
            THEN /\ Raise("ConnectionError")
                 /\ UNCHANGED <<files, downloads, writes>>
            ELSE IF ~StatusOK(status)
            THEN /\ images' = Append(images, image_url)
                 /\ k' = k + 1
                 /\ downloads' = got
                 /\ Goto("image")
                 /\ UNCHANGED <<files, writes>>
                 /\ UNCHANGED <<extracted_data, content_iframe, alpha_nav_buttons, i,
                                alpha, accordion_item, button_elements, buttons, j,
                                data_container, image_boxes, returned>>
            ELSE IF ~opened
            THEN /\ Raise("OSError")
                 /\ downloads' = got
                 /\ UNCHANGED <<files, writes>>
            ELSE /\ images' = Append(images, image_url)
                 /\ k' = k + 1
                 /\ downloads' = got
                 /\ files' = DictSet(files, filename, content)
                 /\ writes' = Append(writes,
                        [index |-> k, file |-> filename, content |-> content])
                 /\ Goto("image")
                 /\ UNCHANGED <<extracted_data, content_iframe, alpha_nav_buttons, i,
                                alpha, accordion_item, button_elements, buttons, j,
                                data_container, image_boxes, returned>>
    /\ UNCHANGED <<imgDir, jsonFile, browser, ctx, stdout>>
    /\ UNCHANGED <<lookups, waited, revealed, clicks, uses, nodes, quitCalls,
                   frameLookup, mainLookup>>

\* process_webpage_elements: data_container["images"] = images; return; and
\* load_website: extracted_data[alpha][f"page_{j}"] = data_container
EntryFinish ==
    /\ pc = "image"
    /\ k = Len(image_boxes)
    /\ LET entry == DictSet(data_container, "images", List(images))
           pages == DictGet(extracted_data, alpha).d
       IN  /\ data_container' = entry
           /\ extracted_data' =
                DictSet(extracted_data, alpha, Dict(DictSet(pages, PageKey(j), Dict(entry))))
           /\ revealed' = [revealed EXCEPT ![i + 1].entries = Append(@, entry)]
    /\ j' = j + 1
    /\ Goto("button")
    /\ UNCHANGED <<content_iframe, alpha_nav_buttons, i, alpha, accordion_item,
                   button_elements, buttons, image_boxes, images, k, returned>>
    /\ UNCHANGED world
    /\ UNCHANGED <<lookups, waited, clicks, uses, downloads, writes, nodes,
                   quitCalls, frameLookup, mainLookup>>

\* start_extraction: firefox_webdriver.quit()
Quit ==
    /\ pc = "quit"
    /\ quitCalls' = quitCalls + 1
    /\ \E ok \in BOOLEAN :
        IF ok
        THEN /\ browser' = "closed"
             /\ Goto("dump")
             /\ UNCHANGED <<locals, returned>>
        ELSE /\ browser' = browser
             /\ Raise("WebDriverException")
    /\ UNCHANGED <<imgDir, files, jsonFile, ctx, stdout>>
    /\ UNCHANGED <<lookups, waited, revealed, clicks, uses, downloads, writes,
                   nodes, frameLookup, mainLookup>>

\* start_extraction: json.dump(extracted_content, open('./djg_munich.json', 'w+'));
\* the open may fail; the result holds only strings, lists and dicts
DumpJson ==
    /\ pc = "dump"
    /\ \E opened \in BOOLEAN :
        IF opened
        THEN /\ jsonFile' = [state |-> "written", content |-> returned]
             /\ Goto("done")
             /\ UNCHANGED <<locals, returned>>
        ELSE /\ jsonFile' = jsonFile
             /\ Raise("OSError")
    /\ UNCHANGED <<imgDir, files, browser, ctx, stdout, history>>

Next ==
    \/ MakeImgDir
    \/ StartWebdriver
    \/ LoadPage
    \/ FindMain
    \/ FindIframe
    \/ WaitIframe
    \/ SwitchFrame
    \/ QueryNav
    \/ LetterStart
    \/ Return
    \/ RevealLetter
    \/ ButtonWait
    \/ NextLetter
    \/ EntryStart
    \/ ImageStep
    \/ EntryFinish
    \/ Quit
    \/ DumpJson

Spec == Init /\ [][Next]_vars

\* ------------------------------------------------------------- properties
\* load_website has returned: returned holds its result
Completed == returned.kind = "dict"

\* the key the specification gives the entry at position n (from 0)
ExpectedKey(n) == "page_" \o ToString(n)

\* the page mapping the specification gives a letter: one key per button,
\* in DOM order, each holding the entry extracted for that button
PagesOf(r) ==
    [m \in 1..Len(r.entries) |-> [key |-> ExpectedKey(m - 1), val |-> Dict(r.entries[m])]]

\* the letter at position n of the index is the last one bearing its label
LastOfLabel(n) ==
    \A n2 \in (n + 1)..Len(revealed) : revealed[n2].label # revealed[n].label

\* the letter at position n has, under its label, one page per button
LetterPagesOK(n) ==
    LET r == revealed[n]
        v == DictGet(returned.d, r.label)
    IN  /\ HasKey(returned.d, r.label)
        /\ v.kind = "dict"
        /\ Len(r.entries) = Len(r.buttons)
        /\ Keys(v.d) = [m \in 1..Len(r.buttons) |-> ExpectedKey(m - 1)]
        /\ v.d = PagesOf(r)
        /\ \A m \in 1..Len(r.buttons) :
              DictGet(r.entries[m], "header") = Str(r.buttons[m])

\* C1 as stated: after load_website completes, every letter with N buttons has
\* under its label exactly the keys page_0 .. page_{N-1}, in that order, page_j
\* holding the entry extracted for the j-th button.
C1_AsStated ==
    Completed => \A n \in 1..Len(revealed) : LetterPagesOK(n)

\* C1 amended: the same, for every letter whose label no later letter of the
\* index bears (a later letter with the same label replaces the mapping).
C1_PageKeys ==
    Completed => \A n \in 1..Len(revealed) : LastOfLabel(n) => LetterPagesOK(n)

C1_Witness ==
    /\ Completed
    /\ \E n \in 1..Len(revealed) :
          /\ LastOfLabel(n)
          /\ Len(revealed[n].buttons) = 2
          /\ revealed[n].buttons[1] # revealed[n].buttons[2]

\* the file the specification gives image n of an entry with this header
ExpectedFile(header, n) ==
    [dir |-> "./images",
     stem |-> SelectSeq(header, LAMBDA c : c \notin {"/"}) \o <<"_", ToString(n)>>,
     ext |-> ".png"]

\* an entry's image loop is under way, or has just ended
InImageLoop == pc = "image" \/ (pc = "button" /\ step = "image")

\* C2: for every image handled so far (index n, in lookup order) its src is in
\* the images list whatever the status; a file ./images/<sanitized header_n>.png
\* was written with exactly the response body if and only if the status was
\* 200; after a non-200 status the loop goes on.
C2_ImageDownload ==
    InImageLoop =>
        LET header == DictGet(data_container, "header").s
        IN  /\ Len(images) = Len(downloads)
            /\ k = Len(downloads)
            /\ \A n \in 1..Len(downloads) :
                  /\ downloads[n].index = n - 1
                  /\ images[n] = image_boxes[n].text
                  /\ downloads[n].url = images[n]
                  /\ (downloads[n].status = 200) <=>
                        (\E w \in 1..Len(writes) : writes[w].index = n - 1)
            /\ \A w \in 1..Len(writes) :
                  /\ writes[w].index < Len(downloads)
                  /\ writes[w].file = ExpectedFile(header, writes[w].index)
                  /\ writes[w].content = downloads[writes[w].index + 1].content
                  /\ \A w2 \in 1..Len(writes) : writes[w2].index = writes[w].index => w2 = w
            /\ Len(writes) > 0 =>
                  /\ HasKey(files, writes[Len(writes)].file)
                  /\ DictGet(files, writes[Len(writes)].file) = writes[Len(writes)].content

C2_Witness ==
    /\ pc = "image"
    /\ Len(downloads) = 2
    /\ downloads[1].status = 404
    /\ downloads[2].status = 200
    /\ Len(writes) = 1
    /\ "/" \in {DictGet(data_container, "header").s[n] :
                  n \in 1..Len(DictGet(data_container, "header").s)}

\* the labels of the index
LabelSet == {revealed[n].label : n \in 1..Len(revealed)}
KeySet(d) == {d[n].key : n \in 1..Len(d)}
MainFound == mainLookup \notin {"pending", "absent"}

\* C3 as stated: the result has one top-level key per letter, each holding that
\* letter's own page mapping, plus "main" holding the main block's text exactly
\* when the page has a main block, and no other key.
C3_AsStated ==
    Completed =>
        /\ Len(returned.d) = Len(revealed) + (IF MainFound THEN 1 ELSE 0)
        /\ \A n \in 1..Len(revealed) :
              /\ HasKey(returned.d, revealed[n].label)
              /\ DictGet(returned.d, revealed[n].label) = Dict(PagesOf(revealed[n]))
        /\ MainFound <=>
              (HasKey(returned.d, "main") /\ DictGet(returned.d, "main") = Str(mainLookup))

\* C3 amended: the result has one top-level key per distinct label, holding the
\* page mapping of the last letter bearing it, plus "main" holding the main
\* block's text exactly when the page has a main block and no letter is
\* labelled "main"; no other key.
C3_TopLevelKeys ==
    Completed =>
        /\ KeySet(returned.d) = LabelSet \cup (IF MainFound THEN {"main"} ELSE {})
        /\ Len(returned.d) = Cardinality(KeySet(returned.d))
        /\ \A n \in 1..Len(revealed) :
              LastOfLabel(n) =>
                  DictGet(returned.d, revealed[n].label) = Dict(PagesOf(revealed[n]))
        /\ (MainFound /\ "main" \notin LabelSet) <=>
              (HasKey(returned.d, "main") /\ DictGet(returned.d, "main") = Str(mainLookup))

C3_Witness ==
    /\ Completed
    /\ MainFound
    /\ Len(revealed) = 2
    /\ revealed[1].label = "A" /\ Len(revealed[1].entries) = 1
    /\ revealed[2].label = "B" /\ Len(revealed[2].entries) = 1
    /\ Keys(returned.d) = <<"main", "A", "B">>

\* C4: when a step before the serialization raises, ./djg_munich.json is never
\* opened; the file is written only after load_website returned normally, and
\* what it holds is the complete result.
C4_NoJsonOnFailure ==
    /\ exc # "none" => jsonFile.state = "absent"
    /\ jsonFile.state # "absent" =>
          /\ Completed
          /\ jsonFile.content = returned
          /\ pc = "done"

C4_Witness ==
    /\ pc = "raised"
    /\ step = "image"
    /\ Len(revealed) = 1
    /\ Len(revealed[1].entries) = 1
    /\ jsonFile.state = "absent"

\* the calls of execute_with_exception_handling the last statement made
LastCalls == {lookups[n] : n \in 1..Len(lookups)}
NothingMatched(c) == c.fault = "none" /\ c.matches.l = <<>>

\* what both modes share: another failure of the lookup reaches the caller
\* unchanged, and what a successful lookup found is returned unchanged
PropagatesAndReturns(c) ==
    /\ c.fault # "none" => c.exc = c.fault
    /\ (c.fault = "none" /\ c.matches.l # <<>>) =>
          /\ c.exc = "none"
          /\ c.printed = 0
          /\ c.data = IF c.all THEN c.matches ELSE c.matches.l[1]

EntryReturned == pc = "button" /\ step = "image"

\* C6: when the text block lookup yields no element the returned entry has no
\* "text" key (its keys are header and images); when the block is found, "text"
\* is present and is the block's visible text.
C6_TextKey ==
    EntryReturned =>
        IF lookups[1].matches.l = <<>>
        THEN Keys(data_container) = <<"header", "images">>
        ELSE /\ Keys(data_container) = <<"header", "text", "images">>
             /\ DictGet(data_container, "text") = Str(lookups[1].matches.l[1].text)

C6_Witness ==
    /\ EntryReturned
    /\ lookups[1].matches.l = <<>>
    /\ Len(images) = 1

\* C7 as stated: when the frame lookup returns the absent value, the run ends
\* with the wait's timeout exception, after the 10 time units of the
\* visibility wait, and the context is never switched into a frame.
C7_AsStated ==
    /\ (frameLookup = "absent" /\ step = "wait_iframe") =>
          /\ pc = "raised"
          /\ exc = "TimeoutException"
          /\ waited = WaitTimeout
    /\ frameLookup = "absent" => ctx = "top"

\* C8: no click for letter 0, one click for every later letter; every button
\* and accordion item used while letter i is handled came from the query made
\* after letter i was revealed.
C8_FreshElements ==
    /\ \A n \in 1..Len(clicks) : clicks[n] = IF n = 1 THEN 0 ELSE 1
    /\ \A u \in uses : u.rev = u.letter
    /\ pc \in {"button", "entry", "image"} =>
          /\ Len(clicks) = i + 1
          /\ accordion_item.rev = i
          /\ \A m \in 1..Len(button_elements) : button_elements[m].rev = i

C8_Witness ==
    /\ pc = "image"
    /\ i = 1
    /\ j = 1
    /\ clicks = <<0, 1>>
    /\ [letter |-> 0, rev |-> 0] \in uses
    /\ [letter |-> 1, rev |-> 1] \in uses

\* the reveal of a letter found fewer than two ul elements
FewerThanTwoLists ==
    /\ step = "reveal"
    /\ lookups[1].fault = "none"
    /\ Len(lookups[1].matches.l) < 2

\* C9: when the reveal of a letter finds fewer than two ul elements, the run
\* ends there with an index error: no entry for that letter, no later letter,
\* no output.
C9_MissingContentList ==
    FewerThanTwoLists =>
        /\ pc = "raised"
        /\ exc = "IndexError"
        /\ Len(revealed) = Len(clicks) - 1
        /\ returned = None
        /\ jsonFile.state = "absent"
        /\ ~ENABLED Next

C9_Witness ==
    /\ FewerThanTwoLists
    /\ Len(lookups[1].matches.l) = 1
    /\ Len(clicks) = 2
    /\ Len(revealed[1].entries) = 1
    /\ pc = "raised"

\* a stage before the shutdown call raised
EarlierStageRaised == exc # "none" /\ step \notin {"quit", "dump"}

\* C10: the shutdown call runs at most once, only after load_website returned
\* normally and before the JSON file is written; when an earlier stage raised
\* it never runs and a launched browser session stays open.
C10_ShutdownOnce ==
    /\ quitCalls <= 1
    /\ quitCalls = 1 => Completed
    /\ jsonFile.state # "absent" => (quitCalls = 1 /\ browser = "closed")
    /\ EarlierStageRaised =>
          /\ quitCalls = 0
          /\ browser # "closed"
          /\ step \notin {"make_img_dir", "start_webdriver"} => browser = "open"

C10_Witness ==
    /\ pc = "raised"
    /\ step = "entry"
    /\ browser = "open"
    /\ quitCalls = 0

====
